---- MODULE Spec2Model ----
(***************************************************************************)
(* Model of the WebGL palette demo (return215/cgra-webgl02).  Three entry  *)
(* files exist: src/src/utils.ts (cube, 12 triangles, 3 palettes, keyboard *)
(* camera), src/src/main.ts and src/unnamed/part_001 (double pyramid, 6    *)
(* triangles, 6 palette slots).  The model covers main(), the doRender     *)
(* closure returned by render() and the keydown listener.                  *)
(*                                                                         *)
(* Numbers.  performance.now() readings are whole milliseconds.            *)
(* elapsedTime is kept in microseconds (Unit per second); the product      *)
(* dt * timeScale is rounded toward zero to a whole microsecond.           *)
(* timeScale is an exact fraction (n/d) * (99/100)^e, so the               *)
(* multiplications by 99/100 and 100/99 are exact; its comparisons use     *)
(* arbitrary-size naturals (sequences of base-10000 digits, least          *)
(* significant first).  Spec, LoopSpec and SeedSpec use this exact form.   *)
(* DoubleSpec runs the same doRender with timeScale as an IEEE 754         *)
(* binary64 number [m, x] = m * 2^(x - 52), every quotient and product     *)
(* rounded to nearest, ties to even, as the JavaScript number type does;   *)
(* the operators on time scales accept either form.                        *)
(***************************************************************************)
EXTENDS Integers, Sequences, FiniteSets, TLC

\* ------------------------------------------------------------- bounds ----
MaxFrames == 4        \* doRender invocations explored by Spec
LoopFrames == 500     \* doRender invocations explored by LoopSpec
SeedFrames == 80     \* doRender invocations explored by SeedSpec
DoubleFrames == 700   \* doRender invocations explored by DoubleSpec
MaxKeys == 2          \* keydown events explored by Spec
MaxPalSeconds == 13   \* largest whole second sampled by PalSpec

\* ---------------------------------------------------------- arithmetic ---
Base == 10000         \* digits of the arbitrary-size naturals
Unit == 1000000       \* microseconds per second
MaxExp == 200         \* largest power of 99 that is tabulated

\* a number-typed variable that holds null, and an unset record or matrix
null == 0 - 1
none == <<>>

\* Arbitrary-size naturals are digit sequences without leading zeros; the
\* operators below split the digit range in halves, so their recursion depth
\* is logarithmic in the length.
RECURSIVE Digits(_)
Digits(c) == IF c = 0 THEN <<>> ELSE <<c % Base>> \o Digits(c \div Base)

RECURSIVE ToInt(_)
ToInt(a) == IF a = <<>> THEN 0 ELSE Head(a) + Base * ToInt(Tail(a))

StripTop(a) ==
  IF a # <<>> /\ a[Len(a)] = 0 THEN SubSeq(a, 1, Len(a) - 1) ELSE a

\* digits lo..hi of a * k + c, and the carry out
RECURSIVE MulRange(_, _, _, _, _)
MulRange(a, lo, hi, k, c) ==
  IF lo = hi
  THEN LET v == a[lo] * k + c IN [d |-> <<v % Base>>, c |-> v \div Base]
  ELSE LET mid   == (lo + hi) \div 2
           low   == MulRange(a, lo, mid, k, c)
           high  == MulRange(a, mid + 1, hi, k, low.c)
       IN  [d |-> low.d \o high.d, c |-> high.c]

\* a * k for a natural a and 0 <= k <= 200000
BigMul(a, k) ==
  IF k = 0 \/ a = <<>> THEN <<>>
  ELSE LET m == MulRange(a, 1, Len(a), k, 0) IN m.d \o Digits(m.c)

\* quotient digits lo..hi and remainder of dividing by k, r carried in
RECURSIVE DivRange(_, _, _, _, _)
DivRange(a, lo, hi, k, r) ==
  IF lo = hi
  THEN LET cur == r * Base + a[lo] IN [q |-> <<cur \div k>>, r |-> cur % k]
  ELSE LET mid  == (lo + hi) \div 2
           high == DivRange(a, mid + 1, hi, k, r)
           low  == DivRange(a, lo, mid, k, high.r)
       IN  \* the upper half is evaluated before the lower half needs high.r
           IF high.r < 0 THEN high
           ELSE [q |-> low.q \o high.q, r |-> low.r]

\* floor(a / k) for a natural a and 0 < k <= 200000
BigDiv(a, k) ==
  IF a = <<>> THEN <<>>
  ELSE StripTop(StripTop(DivRange(a, 1, Len(a), k, 0).q))

RECURSIVE CmpRange(_, _, _, _)
CmpRange(a, b, lo, hi) ==
  IF lo = hi
  THEN (IF a[lo] < b[lo] THEN -1 ELSE IF a[lo] > b[lo] THEN 1 ELSE 0)
  ELSE LET mid  == (lo + hi) \div 2
           high == CmpRange(a, b, mid + 1, hi)
       IN  IF high # 0 THEN high ELSE CmpRange(a, b, lo, mid)

\* -1, 0, 1 as a < b, a = b, a > b
BigCmp(a, b) ==
  IF Len(a) < Len(b) THEN -1
  ELSE IF Len(a) > Len(b) THEN 1
  ELSE IF a = <<>> THEN 0
  ELSE CmpRange(a, b, 1, Len(a))

\* <<first, first * 99, ..., first * 99^(count - 1)>>
RECURSIVE Pow99From(_, _)
Pow99From(first, count) ==
  IF count = 1 THEN <<first>>
  ELSE LET half == Pow99From(first, count \div 2)
       IN  half \o Pow99From(BigMul(half[Len(half)], 99), count - count \div 2)

\* Pow99[k + 1] = 99^k for k in 0..MaxExp
Pow99 == Pow99From(<<1>>, MaxExp + 1)

\* a * 100^k  and  floor(a / 100^k)
MulPow100(a, k) ==
  IF a = <<>> THEN <<>>
  ELSE [i \in 1..(k \div 2) |-> 0] \o (IF k % 2 = 1 THEN BigMul(a, 100) ELSE a)

DivPow100(a, k) ==
  LET hi == IF k \div 2 >= Len(a) THEN <<>>
            ELSE SubSeq(a, k \div 2 + 1, Len(a))
  IN  IF k % 2 = 1 THEN BigDiv(hi, 100) ELSE hi

\* floor(a / 99^k)
RECURSIVE DivPow99(_, _)
DivPow99(a, k) ==
  IF k = 0 \/ a = <<>> THEN a
  ELSE IF k = 1 THEN BigDiv(a, 99)
  ELSE IF k = 2 THEN BigDiv(a, 99 * 99)
  ELSE DivPow99(DivPow99(a, k \div 2), k - k \div 2)

\* a + b
RECURSIVE AddCarry(_, _, _)
AddCarry(a, b, c) ==
  IF a = <<>> /\ b = <<>> THEN Digits(c)
  ELSE LET x == IF a = <<>> THEN 0 ELSE Head(a)
           y == IF b = <<>> THEN 0 ELSE Head(b)
           v == x + y + c
       IN  <<v % Base>> \o AddCarry(IF a = <<>> THEN a ELSE Tail(a),
                                    IF b = <<>> THEN b ELSE Tail(b),
                                    v \div Base)

BigAdd(a, b) == AddCarry(a, b, 0)

\* a * b for naturals a and b, one digit of b at a time
RECURSIVE BigTimes(_, _)
BigTimes(a, b) ==
  IF a = <<>> \/ b = <<>> THEN <<>>
  ELSE LET rest == BigTimes(a, Tail(b))
       IN  BigAdd(BigMul(a, Head(b)),
                  IF rest = <<>> THEN <<>> ELSE <<0>> \o rest)

\* 2^k for 0 <= k <= 13, a * 2^k, and floor(a / 2^k) with the bits dropped:
\* half is the highest dropped bit, sticky tells whether a lower one is set
RECURSIVE Pow2(_)
Pow2(k) == IF k = 0 THEN 1 ELSE 2 * Pow2(k - 1)

RECURSIVE MulPow2(_, _)
MulPow2(a, k) ==
  IF k = 0 THEN a
  ELSE IF k > 13 THEN MulPow2(BigMul(a, Pow2(13)), k - 13)
  ELSE BigMul(a, Pow2(k))

RECURSIVE ShiftRight(_, _, _, _)
ShiftRight(a, k, half, sticky) ==
  IF k = 0 THEN [q |-> a, half |-> half, sticky |-> sticky]
  ELSE LET n == IF k > 13 THEN 13 ELSE k
           r == IF a = <<>> THEN 0 ELSE DivRange(a, 1, Len(a), Pow2(n), 0).r
       IN  ShiftRight(BigDiv(a, Pow2(n)), k - n,
                      r >= Pow2(n - 1),
                      sticky \/ half \/ r % Pow2(n - 1) # 0)

\* --------------------------------------------------- IEEE 754 binary64 ---
\* A JavaScript number in the normal range is [m, x] and stands for
\* m * 2^(x - 52) with 2^52 <= m < 2^53; m is an arbitrary-size natural.
\* Only positive normal numbers occur; results are rounded to the nearest
\* representable number, ties to the even one.
Two52 == MulPow2(<<1>>, 52)
Two53 == MulPow2(<<1>>, 53)

\* q rounded by the dropped bits, renormalised
Round64(q, x, half, sticky) ==
  LET up == half /\ (sticky \/ q[1] % 2 = 1)
      m  == IF up THEN BigAdd(q, <<1>>) ELSE q
  IN  IF BigCmp(m, Two53) = 0 THEN [m |-> Two52, x |-> x + 1]
      ELSE [m |-> m, x |-> x]

\* the exponent of a / b: the j with 2^j <= a / b < 2^(j + 1)
RECURSIVE Exponent(_, _)
Exponent(a, b) ==
  IF a >= 2 * b THEN 1 + Exponent(a, 2 * b)
  ELSE IF a < b THEN Exponent(2 * a, b) - 1
  ELSE 0

\* the number a / b for integers 0 < a, b <= 100000
Div64(a, b) ==
  LET j   == Exponent(a, b)
      num == MulPow2(Digits(a), 52 - j)
      d   == DivRange(num, 1, Len(num), b, 0)
  IN  Round64(StripTop(StripTop(d.q)), j, 2 * d.r >= b, 2 * d.r # b /\ d.r # 0)

\* the number u * v
Mul64(u, v) ==
  LET p  == BigTimes(u.m, v.m)
      s  == ShiftRight(p, 52, FALSE, FALSE)
      s1 == IF BigCmp(s.q, Two53) >= 0
            THEN ShiftRight(s.q, 1, s.half, s.sticky)
            ELSE s
  IN  Round64(s1.q, u.x + v.x + (IF BigCmp(s.q, Two53) >= 0 THEN 1 ELSE 0),
              s1.half, s1.sticky)

\* -1, 0, 1 as u < v, u = v, u > v
Cmp64(u, v) ==
  IF u.x < v.x THEN -1 ELSE IF u.x > v.x THEN 1 ELSE BigCmp(u.m, v.m)

\* floor(x * c * u) for naturals x, c <= 200000 and u below 2^52
Floor64(x, c, u) ==
  IF x = 0 \/ c = 0 THEN 0
  ELSE ToInt(ShiftRight(BigMul(BigMul(u.m, x), c), 52 - u.x, FALSE, FALSE).q)

IsBinary64(r) == "m" \in DOMAIN r

\* A fraction is [n, d, e] and stands for (n / d) * (99 / 100)^e, with
\* naturals n, d and an integer e.
Rat(n, d) == [n |-> n, d |-> d, e |-> 0]

\* r * (a / b), exactly
RatMul(r, a, b) ==
  IF IsBinary64(r) THEN Mul64(r, Div64(a, b))
  ELSE IF a = 99 /\ b = 100 THEN [r EXCEPT !.e = @ + 1]
  ELSE IF a = 100 /\ b = 99 THEN [r EXCEPT !.e = @ - 1]
  ELSE [r EXCEPT !.n = @ * a, !.d = @ * b]

\* c * numerator and c * denominator of r as naturals, 0 <= c <= 2000
RatNum(r, c) ==
  IF r.e >= 0 THEN BigMul(Pow99[r.e + 1], r.n * c)
  ELSE MulPow100(Digits(r.n * c), 0 - r.e)

RatDen(r, c) ==
  IF r.e >= 0 THEN MulPow100(Digits(r.d * c), r.e)
  ELSE BigMul(Pow99[1 - r.e], r.d * c)

\* -1, 0, 1 as r < a / b, r = a / b, r > a / b   (b > 0)
RatCmp(r, a, b) ==
  IF IsBinary64(r) THEN Cmp64(r, Div64(a, b))
  ELSE BigCmp(RatNum(r, b), RatDen(r, a))

\* r = s as numbers
RatSame(r, s) ==
  IF IsBinary64(r) THEN r = s
  ELSE RatCmp([n |-> r.n, d |-> r.d, e |-> r.e - s.e], s.n, s.d) = 0

RatLess(r, a, b) == RatCmp(r, a, b) < 0
RatGreater(r, a, b) == RatCmp(r, a, b) > 0
RatPositive(r) ==
  IF IsBinary64(r) THEN r.m # <<>> ELSE r.n > 0 /\ r.d > 0

\* floor(x * c * r) for naturals x, c <= 200000
FloorMul(x, c, r) ==
  IF IsBinary64(r) THEN Floor64(x, c, r)
  ELSE IF x = 0 \/ c = 0 \/ r.n = 0 THEN 0
  ELSE LET xc    == BigMul(BigMul(Digits(x), c), r.n)
           num   == IF r.e >= 0
                    THEN BigMul(BigMul(BigMul(Pow99[r.e + 1], x), c), r.n)
                    ELSE MulPow100(xc, 0 - r.e)
           whole == IF r.e >= 0 THEN DivPow100(num, r.e)
                    ELSE DivPow99(num, 0 - r.e)
       IN  ToInt(BigDiv(whole, r.d))

\* x * c * r rounded toward zero, for an integer x and a natural c
Scaled(x, c, r) ==
  IF x >= 0 THEN FloorMul(x, c, r) ELSE 0 - FloorMul(0 - x, c, r)

\* -------------------------------------------------------- program data ---
Variants == {"utils.ts", "main.ts", "part_001"}

stellaColors == <<92, 151, 255, 255,  196, 92, 255, 255,  115, 92, 255, 255>>
revalxColors == <<236, 247, 2, 255,  247, 135, 2, 255,  247, 13, 2, 255>>
neoColors == <<36, 247, 150, 255,  36, 238, 247, 255,  36, 133, 247, 255>>

allColors(v) ==
  IF v = "utils.ts" THEN <<stellaColors, revalxColors, neoColors>>
  ELSE <<stellaColors, revalxColors, neoColors,
         stellaColors, revalxColors, neoColors>>

\* the literal n of "% n" in the palette index expressions
modulusShort(v) == IF v = "utils.ts" THEN 2 ELSE 4

modulus(v) == IF v = "utils.ts" THEN 3 ELSE 6

\* the literal k of "Math.floor(elapsedTime + k)", entry by entry
colorOffsetsSlip(v) ==
  IF v = "utils.ts" THEN <<0, 1, 2, 0, 1, 2, 0, 1, 2, 0, 1, 1>>
  ELSE <<0, 1, 2, 3, 4, 4>>

colorOffsets(v) ==
  IF v = "utils.ts" THEN <<0, 1, 2, 0, 1, 2, 0, 1, 2, 0, 1, 2>>
  ELSE <<0, 1, 2, 3, 4, 5>>

nextColorOffsetsSlip(v) ==
  IF v = "utils.ts" THEN <<1, 2, 0, 1, 2, 0, 1, 2, 0, 1, 2, 1>>
  ELSE <<1, 2, 3, 4, 5, 1>>

nextColorOffsets(v) ==
  IF v = "utils.ts" THEN <<1, 2, 0, 1, 2, 0, 1, 2, 0, 1, 2, 0>>
  ELSE <<1, 2, 3, 4, 5, 0>>

\* number of vertices handed to drawArrays: pos.length / 3
vertexCount(v) == IF v = "utils.ts" THEN (36 * 3) \div 3 ELSE (18 * 3) \div 3

\* Math.floor(elapsedTime + k) % n, elapsedTime in microseconds
paletteIndex(et, k, n) == ((et + k * Unit) \div Unit) % n

RECURSIVE flat(_)
flat(rows) == IF rows = <<>> THEN <<>> ELSE Head(rows) \o flat(Tail(rows))

\* new Uint8Array([allColors[Math.floor(elapsedTime + k) % n], ...].flat())
colorsBuffer(v, et) ==
  LET offs == colorOffsets(v)
  IN  flat([i \in 1..Len(offs) |->
              allColors(v)[paletteIndex(et, offs[i], modulus(v)) + 1]])

nextColorsBuffer(v, et) ==
  LET offs == nextColorOffsets(v)
  IN  flat([i \in 1..Len(offs) |->
              allColors(v)[paletteIndex(et, offs[i], modulus(v)) + 1]])

\* showDecimalPoints(n) for a fraction n: Math.round(n * 100), in hundredths
showDecimalPoints(r) == (FloorMul(200, 1, r) + 1) \div 2

\* showDecimalPoints(ms / 1000.0): Math.round(ms / 10), in hundredths
showDecimalPointsMs(ms) == (ms + 5) \div 10

\* ----------------------------------------------------- time scale step ---
\* if (timeScale < 2 / 10 || timeScale > 10 / 2) shrinkTimeScale = !shrinkTimeScale
flipNarrowBand(ts, sh) ==
  IF RatLess(ts, 2, 10) \/ RatGreater(ts, 5, 2) THEN ~sh ELSE sh

flipUpperOnly(ts, sh) ==
  IF RatGreater(ts, 10, 2) THEN ~sh ELSE sh

flipLowerOnly(ts, sh) ==
  IF RatLess(ts, 2, 10) THEN ~sh ELSE sh

flip(ts, sh) ==
  IF RatLess(ts, 2, 10) \/ RatGreater(ts, 10, 2) THEN ~sh ELSE sh

\* if (shrinkTimeScale) timeScale *= 99 / 100; else timeScale *= 100 / 99;
scaleNoGrowth(ts, sh) ==
  IF sh THEN RatMul(ts, 99, 100) ELSE RatMul(ts, 100, 100)

scaleIntegerDivision(ts, sh) ==
  IF sh THEN RatMul(ts, 99 \div 100, 1) ELSE RatMul(ts, 100 \div 99, 1)

scale(ts, sh) ==
  IF sh THEN RatMul(ts, 99, 100) ELSE RatMul(ts, 100, 99)

\* the "scale time" block of doRender: the flag is tested and inverted
\* first, the multiplier is then chosen by the updated flag
scaleTimePreFlip(ts, sh) ==
  [timeScale |-> scale(ts, sh), shrinkTimeScale |-> flip(ts, sh)]

scaleTime(ts, sh) ==
  LET sh1 == flip(ts, sh)
  IN  [timeScale |-> scale(ts, sh1), shrinkTimeScale |-> sh1]

\* --------------------------------------------------------------- state ---
VARIABLES
  pc,               \* "loaded" (main not run), "aborted", "running"
  variant,          \* which entry file the page was built from
  timeScaleElem,    \* TRUE iff the page has a #timeScale element
  host,             \* outcome of the five startup checks, none before main
  clock,            \* latest value returned by performance.now(), in ms
  startTime, previousTime, elapsedTime, timeScale, shrinkTimeScale,
  cameraFov,        \* in half degrees (utils.ts only)
  m4viewProj,       \* [fov, edits]: the field of view the projection was
                    \* built with (half degrees, 0 for the identity) and
                    \* the camera transforms applied since
  keyListener,      \* TRUE iff the keydown listener is registered
  textContent,      \* the two numbers shown in #timeScale, in hundredths
  unifTime,         \* latest value sent to u_Time
  unifViewProj,     \* latest matrix sent to u_ViewProj
  colors, nextColors,  \* latest contents of colBuffer and colNextBuffer
  drawCount,        \* vertex count of the latest drawArrays call
  glCalls,          \* host calls issued by the latest doRender, in order
  rafPending,       \* animation-frame callbacks requested and not yet run
  frames,           \* doRender invocations completed
  keys,             \* keydown events handled
  entry,            \* closure variables as read on entry to the latest doRender
  ref,              \* an earlier evaluation of the two buffers (PalSpec)
  twin,             \* the closure and outputs of the same program on a page
                    \* that differs only in having the #timeScale element
                    \* or not, run on the same clock readings
  writes,           \* assignments to each closure variable in the latest
                    \* doRender
  history           \* over all frames so far: flips of the direction flag,
                    \* frames since the latest flip, frames that left the
                    \* time scale at exactly 1, and frames that left it
                    \* within 1/1000 of 1

vars == <<pc, variant, timeScaleElem, host, clock, startTime, previousTime,
          elapsedTime, timeScale, shrinkTimeScale, cameraFov, m4viewProj,
          keyListener, textContent, unifTime, unifViewProj, colors,
          nextColors, drawCount, glCalls, rafPending, frames, keys, entry,
          ref, twin, writes, history>>

\* clock advances between two readings that Spec explores, in ms
Dts == {0, 700, 1000}
\* the clock advance between two readings during startup in LoopSpec, in ms
RefreshMs == 16

Reads(c, D) == {c + d : d \in D}

\* the reading of "if (!startTime) previousTime = startTime = performance.now()";
\* no reading is taken when startTime is set
InitReads(st, D) == IF st = null \/ st = 0 THEN Reads(clock, D) ELSE {clock}

Hosts == [canvas : BOOLEAN, webgl : BOOLEAN, vertexShader : BOOLEAN,
          fragmentShader : BOOLEAN, program : BOOLEAN]

\* the four early returns of main()
mainProceedsNoLinkCheck(h) ==
  h.canvas /\ h.webgl /\ (h.vertexShader /\ h.fragmentShader)

mainProceeds(h) ==
  h.canvas /\ h.webgl /\ (h.vertexShader /\ h.fragmentShader) /\ h.program

\* !startTime
Falsy(st) == st = null \/ st = 0

\* elapsedTime += ((currentTime - previousTime) / 1000.0) * timeScale
elapsedAfterAssign(et, pt, now, ts) == Scaled(now - pt, Unit \div 1000, ts)

elapsedAfter(et, pt, now, ts) == et + Scaled(now - pt, Unit \div 1000, ts)

\* the host calls of one doRender invocation, in program order
doRenderCallsEarlyRequest(v) ==
  IF v = "utils.ts" THEN
    <<"uniform1f", "bufferData:col", "bufferData:colNext",
      "uniformMatrix4fv", "requestAnimationFrame", "clear", "drawArrays",
      "requestAnimationFrame">>
  ELSE
    <<"uniform1f", "bufferData:pos", "bufferData:col", "bufferData:colNext",
      "requestAnimationFrame", "clear", "drawArrays",
      "requestAnimationFrame">>

doRenderCalls(v) ==
  IF v = "utils.ts" THEN
    <<"uniform1f", "bufferData:col", "bufferData:colNext",
      "uniformMatrix4fv", "clear", "drawArrays", "requestAnimationFrame">>
  ELSE IF v = "main.ts" THEN
    <<"uniform1f", "bufferData:pos", "bufferData:col", "bufferData:colNext",
      "uniformMatrix4fv", "clear", "drawArrays", "requestAnimationFrame">>
  ELSE
    <<"uniform1f", "bufferData:pos", "bufferData:col", "bufferData:colNext",
      "clear", "drawArrays", "requestAnimationFrame">>

Count(seq, x) == Cardinality({i \in 1..Len(seq) : seq[i] = x})

\* mat4.create()
identity == [fov |-> 0, edits |-> <<>>]

\* the history after a doRender that found closure c and left result r
noHistory == [flips |-> 0, sinceFlip |-> 0, ones |-> 0, near |-> 0]

recorded(h, c, r) ==
  LET flipped == r.shrinkTimeScale # c.shrinkTimeScale
  IN  [flips     |-> h.flips + (IF flipped THEN 1 ELSE 0),
       sinceFlip |-> IF flipped THEN 0 ELSE h.sinceFlip + 1,
       ones      |-> h.ones + (IF RatCmp(r.timeScale, 1, 1) = 0 THEN 1 ELSE 0),
       near      |-> h.near + (IF /\ RatGreater(r.timeScale, 999, 1000)
                                 /\ RatLess(r.timeScale, 1001, 1000)
                              THEN 1 ELSE 0)]

\* the closure variables as render() declares them
render(v) ==
  [startTime |-> null, previousTime |-> null, elapsedTime |-> 0,
   timeScale |-> Rat(1, 1), shrinkTimeScale |-> TRUE,
   cameraFov |-> IF v = "utils.ts" THEN 80 * 2 ELSE null,
   m4viewProj |-> IF v = "utils.ts" THEN [fov |-> 80 * 2, edits |-> <<>>]
                  ELSE identity,
   keyListener |-> v = "utils.ts"]

Init ==
  /\ pc = "loaded"
  /\ variant \in Variants
  /\ timeScaleElem \in BOOLEAN
  /\ host = none
  /\ clock = 0
  /\ startTime = null
  /\ previousTime = null
  /\ elapsedTime = 0
  /\ timeScale = Rat(1, 1)
  /\ shrinkTimeScale = TRUE
  /\ cameraFov = null
  /\ m4viewProj = identity
  /\ keyListener = FALSE
  /\ textContent = none
  /\ unifTime = null
  /\ unifViewProj = none
  /\ colors = <<>>
  /\ nextColors = <<>>
  /\ drawCount = 0
  /\ glCalls = <<>>
  /\ rafPending = 0
  /\ frames = 0
  /\ keys = 0
  /\ entry = none
  /\ ref = none
  /\ twin = none
  /\ writes = none
  /\ history = noHistory

\* if (timeScaleElem) timeScaleElem.textContent = `...`: the text shown
\* afterwards, for time scale ts, start time st, previous text and reading
\* now2; and the time scale the statement leaves, which it does not assign
showStatus(elem, ts, st, text, now2) ==
  IF elem
  THEN [scale |-> showDecimalPoints(ts),
        time  |-> showDecimalPointsMs(now2 - st)]
  ELSE text

statusScaleRounded(elem, ts) ==
  IF elem THEN Rat(showDecimalPoints(ts), 100) ELSE ts

statusScale(elem, ts) == ts

\* one invocation of doRender of variant v on a page with (elem) or without
\* status element, on closure variables c, shown text and matrix vp; now1 is
\* the reading taken when startTime is unset, now2 the reading stored in
\* currentTime.  The result holds the closure variables and what was sent
\* to the host; osc and et1 are the values of the oscillator step and of
\* the elapsedTime assignment, each computed once.
doRenderScalesFirst(v, elem, c, text, vp, now1, now2) ==
  LET first == Falsy(c.startTime)
      st1   == IF first THEN now1 ELSE c.startTime
      pt1   == IF first THEN now1 ELSE c.previousTime
      calls == doRenderCalls(v)
  IN  CHOOSE result \in
        {[startTime |-> st1, previousTime |-> now2, elapsedTime |-> et1,
          timeScale |-> osc.timeScale,
          shrinkTimeScale |-> osc.shrinkTimeScale,
          textContent |-> showStatus(elem, c.timeScale, st1, text, now2),
          unifTime |-> et1,
          colors |-> colorsBuffer(v, et1),
          nextColors |-> nextColorsBuffer(v, et1),
          m4viewProj |-> IF v = "main.ts"
                         THEN [fov |-> 70 * 2, edits |-> <<>>]
                         ELSE vp,
          drawCount |-> vertexCount(v),
          glCalls |-> calls,
          writes |-> [startTime |-> IF first THEN 1 ELSE 0,
                      previousTime |-> IF first THEN 2 ELSE 1,
                      elapsedTime |-> 1,
                      timeScale |-> 1,
                      shrinkTimeScale |->
                        IF osc.shrinkTimeScale # c.shrinkTimeScale THEN 1
                        ELSE 0],
          entry |-> [startTime |-> st1, previousTime |-> pt1,
                     currentTime |-> now2, elapsedTime |-> c.elapsedTime,
                     timeScale |-> c.timeScale,
                     shrinkTimeScale |-> c.shrinkTimeScale]] :
           osc \in {scaleTime(statusScale(elem, c.timeScale),
                              c.shrinkTimeScale)},
           et1 \in {elapsedAfter(c.elapsedTime, pt1, now2,
                                 scaleTime(c.timeScale,
                                           c.shrinkTimeScale).timeScale)}} :
        TRUE

doRender(v, elem, c, text, vp, now1, now2) ==
  LET first == Falsy(c.startTime)
      st1   == IF first THEN now1 ELSE c.startTime
      pt1   == IF first THEN now1 ELSE c.previousTime
      calls == doRenderCalls(v)
  IN  CHOOSE result \in
        {[startTime |-> st1, previousTime |-> now2, elapsedTime |-> et1,
          timeScale |-> osc.timeScale,
          shrinkTimeScale |-> osc.shrinkTimeScale,
          textContent |-> showStatus(elem, c.timeScale, st1, text, now2),
          unifTime |-> et1,
          colors |-> colorsBuffer(v, et1),
          nextColors |-> nextColorsBuffer(v, et1),
          m4viewProj |-> IF v = "main.ts"
                         THEN [fov |-> 70 * 2, edits |-> <<>>]
                         ELSE vp,
          drawCount |-> vertexCount(v),
          glCalls |-> calls,
          writes |-> [startTime |-> IF first THEN 1 ELSE 0,
                      previousTime |-> IF first THEN 2 ELSE 1,
                      elapsedTime |-> 1,
                      timeScale |-> 1,
                      shrinkTimeScale |->
                        IF osc.shrinkTimeScale # c.shrinkTimeScale THEN 1
                        ELSE 0],
          entry |-> [startTime |-> st1, previousTime |-> pt1,
                     currentTime |-> now2, elapsedTime |-> c.elapsedTime,
                     timeScale |-> c.timeScale,
                     shrinkTimeScale |-> c.shrinkTimeScale]] :
           osc \in {scaleTime(statusScale(elem, c.timeScale),
                              c.shrinkTimeScale)},
           et1 \in {elapsedAfter(c.elapsedTime, pt1, now2, c.timeScale)}} : TRUE

\* the state after one invocation of doRender on closure variables c and
\* matrix vp, and on the twin's closure variables tw; pending is rafPending
\* on entry
Frame(c, tw, vp, now1, now2, pending) ==
  \E r \in {doRender(variant, timeScaleElem, c, textContent, vp, now1, now2)} :
      /\ clock' = now2
      /\ startTime' = r.startTime
      /\ previousTime' = r.previousTime
      /\ elapsedTime' = r.elapsedTime
      /\ textContent' = r.textContent
      /\ timeScale' = r.timeScale
      /\ shrinkTimeScale' = r.shrinkTimeScale
      /\ unifTime' = r.unifTime
      /\ colors' = r.colors
      /\ nextColors' = r.nextColors
      /\ m4viewProj' = r.m4viewProj
      /\ unifViewProj' = IF variant = "part_001" THEN unifViewProj
                         ELSE r.m4viewProj
      /\ drawCount' = r.drawCount
      /\ glCalls' = r.glCalls
      /\ rafPending' = pending + Count(r.glCalls, "requestAnimationFrame")
      /\ frames' = frames + 1
      /\ entry' = r.entry
      /\ writes' = r.writes
      /\ history' = recorded(history, c, r)
      /\ twin' = doRender(variant, ~timeScaleElem, tw,
                          IF twin = none THEN none ELSE twin.textContent,
                          vp, now1, now2)

\* main(): the startup checks, then render(gl, program)() runs the first
\* doRender synchronously
Main(D) ==
  /\ pc = "loaded"
  /\ \E h \in Hosts :
       /\ host' = h
       /\ IF mainProceeds(h)
          THEN LET r == render(variant)
               IN  /\ pc' = "running"
                   /\ cameraFov' = r.cameraFov
                   /\ keyListener' = r.keyListener
                   /\ \E now1 \in InitReads(r.startTime, D) :
                      \E now2 \in Reads(now1, D) :
                        Frame(r, r, r.m4viewProj, now1, now2, 0)
                   /\ UNCHANGED <<variant, timeScaleElem, keys, ref>>
          ELSE /\ pc' = "aborted"
               /\ UNCHANGED <<variant, timeScaleElem, clock, startTime,
                              previousTime, elapsedTime, timeScale,
                              shrinkTimeScale, cameraFov, m4viewProj,
                              keyListener, textContent, unifTime,
                              unifViewProj, colors, nextColors, drawCount,
                              glCalls, rafPending, frames, keys, entry, ref,
                              twin, writes, history>>

\* the closure variables doRender reads
closure ==
  [startTime |-> startTime, previousTime |-> previousTime,
   elapsedTime |-> elapsedTime, timeScale |-> timeScale,
   shrinkTimeScale |-> shrinkTimeScale]

\* the browser runs a requested animation-frame callback
DoRender(D, cap) ==
  /\ pc = "running"
  /\ rafPending > 0
  /\ frames < cap
  /\ \E now1 \in InitReads(startTime, D) : \E now2 \in Reads(now1, D) :
       Frame(closure, twin, m4viewProj, now1, now2, rafPending - 1)
  /\ UNCHANGED <<pc, variant, timeScaleElem, host, cameraFov, keyListener,
                 keys, ref>>

KeyCodes == {"KeyW", "KeyS", "KeyA", "KeyD", "KeyI", "KeyK", "KeyJ", "KeyL",
             "KeyP", "Semicolon", "BracketLeft", "BracketRight", "Enter",
             "Space"}
\* the key codes Spec presses
PressedCodes == {"KeyW", "BracketLeft", "BracketRight", "Enter"}

\* the keydown listener of utils.ts
KeyDownRestarts(code) ==
  /\ pc = "running"
  /\ keyListener
  /\ keys < MaxKeys
  /\ keys' = keys + 1
  /\ m4viewProj' =
       IF code \in {"KeyW", "KeyS", "KeyA", "KeyD", "KeyI", "KeyK", "KeyJ",
                    "KeyL", "KeyP", "Semicolon"}
       THEN [m4viewProj EXCEPT !.edits = Append(@, code)]
       ELSE m4viewProj
  /\ cameraFov' = IF code = "BracketLeft" THEN cameraFov - 1
                  ELSE IF code = "BracketRight" THEN cameraFov + 1
                  ELSE cameraFov
  /\ startTime' = IF code = "Enter" THEN null ELSE startTime
  /\ UNCHANGED <<pc, variant, timeScaleElem, host, clock,
                 previousTime, elapsedTime, timeScale, shrinkTimeScale,
                 keyListener, textContent, unifTime, unifViewProj, colors,
                 nextColors, drawCount, glCalls, rafPending, frames, entry,
                 ref, twin, writes, history>>

KeyDown(code) ==
  /\ pc = "running"
  /\ keyListener
  /\ keys < MaxKeys
  /\ keys' = keys + 1
  /\ m4viewProj' =
       IF code \in {"KeyW", "KeyS", "KeyA", "KeyD", "KeyI", "KeyK", "KeyJ",
                    "KeyL", "KeyP", "Semicolon"}
       THEN [m4viewProj EXCEPT !.edits = Append(@, code)]
       ELSE m4viewProj
  /\ cameraFov' = IF code = "BracketLeft" THEN cameraFov - 1
                  ELSE IF code = "BracketRight" THEN cameraFov + 1
                  ELSE cameraFov
  /\ UNCHANGED <<pc, variant, timeScaleElem, host, clock, startTime,
                 previousTime, elapsedTime, timeScale, shrinkTimeScale,
                 keyListener, textContent, unifTime, unifViewProj, colors,
                 nextColors, drawCount, glCalls, rafPending, frames, entry,
                 ref, twin, writes, history>>

Startup == Main(Dts)
AnimationFrame == DoRender(Dts, MaxFrames)
KeyPress == \E code \in PressedCodes : KeyDown(code)

Next == Startup \/ AnimationFrame \/ KeyPress

Spec == Init /\ [][Next]_vars

\* ------------------------------------------------ long run of the loop ---
\* the same program when the clock advances during startup only and no key
\* is pressed
LongStartup == Main({RefreshMs})
LongAnimationFrame == DoRender({0}, LoopFrames)

LoopNext == LongStartup \/ LongAnimationFrame

LoopSpec == Init /\ [][LoopNext]_vars

\* ------------------------------------------- the loop from other seeds ---
\* the closure as render() returns it, but with another time scale and
\* direction, on a page without status element and with a clock that stands
\* still; the first doRender is the pending callback
Seeds == {Rat(1, 1000), Rat(19, 100), Rat(1, 5), Rat(1, 4), Rat(1, 1),
          Rat(13, 5), Rat(5, 1), Rat(26, 5), Rat(100, 1)}

SeedInit ==
  /\ pc = "running"
  /\ variant \in Variants
  /\ timeScaleElem = FALSE
  /\ host = [canvas |-> TRUE, webgl |-> TRUE, vertexShader |-> TRUE,
             fragmentShader |-> TRUE, program |-> TRUE]
  /\ clock = 0
  /\ startTime = render(variant).startTime
  /\ previousTime = render(variant).previousTime
  /\ elapsedTime = render(variant).elapsedTime
  /\ timeScale \in Seeds
  /\ shrinkTimeScale \in BOOLEAN
  /\ cameraFov = render(variant).cameraFov
  /\ m4viewProj = render(variant).m4viewProj
  /\ keyListener = render(variant).keyListener
  /\ textContent = none
  /\ unifTime = null
  /\ unifViewProj = none
  /\ colors = <<>>
  /\ nextColors = <<>>
  /\ drawCount = 0
  /\ glCalls = <<>>
  /\ rafPending = 1
  /\ frames = 0
  /\ keys = 0
  /\ entry = none
  /\ ref = none
  /\ twin = [startTime |-> startTime, previousTime |-> previousTime,
             elapsedTime |-> elapsedTime, timeScale |-> timeScale,
             shrinkTimeScale |-> shrinkTimeScale, textContent |-> none]
  /\ writes = none
  /\ history = noHistory

SeedAnimationFrame == DoRender({0}, SeedFrames)

SeedSpec == SeedInit /\ [][SeedAnimationFrame]_vars

\* ------------------------------------- the loop in double precision ---
\* the closure as render() returns it, with timeScale = 1.0 as an IEEE 754
\* binary64 number, so that every product and comparison of the oscillator
\* is rounded as JavaScript rounds it; the clock stands still and the first
\* doRender is the pending callback
DoubleInit ==
  /\ pc = "running"
  /\ variant \in Variants
  /\ timeScaleElem \in BOOLEAN
  /\ host = [canvas |-> TRUE, webgl |-> TRUE, vertexShader |-> TRUE,
             fragmentShader |-> TRUE, program |-> TRUE]
  /\ clock = 0
  /\ startTime = render(variant).startTime
  /\ previousTime = render(variant).previousTime
  /\ elapsedTime = render(variant).elapsedTime
  /\ timeScale = Div64(1, 1)
  /\ shrinkTimeScale = render(variant).shrinkTimeScale
  /\ cameraFov = render(variant).cameraFov
  /\ m4viewProj = render(variant).m4viewProj
  /\ keyListener = render(variant).keyListener
  /\ textContent = none
  /\ unifTime = null
  /\ unifViewProj = none
  /\ colors = <<>>
  /\ nextColors = <<>>
  /\ drawCount = 0
  /\ glCalls = <<>>
  /\ rafPending = 1
  /\ frames = 0
  /\ keys = 0
  /\ entry = none
  /\ ref = none
  /\ twin = [startTime |-> startTime, previousTime |-> previousTime,
             elapsedTime |-> elapsedTime, timeScale |-> timeScale,
             shrinkTimeScale |-> shrinkTimeScale, textContent |-> none]
  /\ writes = none
  /\ history = noHistory

DoubleAnimationFrame == DoRender({0}, DoubleFrames)

DoubleSpec == DoubleInit /\ [][DoubleAnimationFrame]_vars

\* ----------------------------------------- the two buffers as functions ---
\* elapsed times at which the buffers are evaluated
PalTimes == {s * Unit + f : s \in 0..MaxPalSeconds,
                            f \in {0, Unit - 1}}

PalInit ==
  /\ pc = "palette"
  /\ variant \in Variants
  /\ timeScaleElem = FALSE
  /\ host = none
  /\ clock = 0
  /\ startTime = null
  /\ previousTime = null
  /\ elapsedTime \in PalTimes
  /\ timeScale = Rat(1, 1)
  /\ shrinkTimeScale = TRUE
  /\ cameraFov = null
  /\ m4viewProj = identity
  /\ keyListener = FALSE
  /\ textContent = none
  /\ unifTime = null
  /\ unifViewProj = none
  /\ colors = colorsBuffer(variant, elapsedTime)
  /\ nextColors = nextColorsBuffer(variant, elapsedTime)
  /\ drawCount = 0
  /\ glCalls = <<>>
  /\ rafPending = 0
  /\ frames = 0
  /\ keys = 0
  /\ entry = none
  /\ ref = none
  /\ twin = none
  /\ writes = none
  /\ history = noHistory

\* the buffers are built for another elapsed time t; ref keeps the
\* evaluation before
PalEval(t) ==
  /\ pc = "palette"
  /\ ref' = [elapsedTime |-> elapsedTime, colors |-> colors,
             nextColors |-> nextColors]
  /\ elapsedTime' = t
  /\ colors' = colorsBuffer(variant, t)
  /\ nextColors' = nextColorsBuffer(variant, t)
  /\ UNCHANGED <<pc, variant, timeScaleElem, host, clock, startTime,
                 previousTime, timeScale, shrinkTimeScale, cameraFov,
                 m4viewProj, keyListener, textContent, unifTime,
                 unifViewProj, drawCount, glCalls, rafPending, frames, keys,
                 entry, twin, writes, history>>

PalNext == \E t \in PalTimes : PalEval(t)

PalSpec == PalInit /\ [][PalNext]_vars

\* ---------------------------------------------------------- properties ---
\* the numbers of vertex groups and of palette table entries per variant
GroupCount == IF variant = "utils.ts" THEN 12 ELSE 6
PaletteCount == IF variant = "utils.ts" THEN 3 ELSE 6

\* the 3 vertices x 4 channels of vertex group g in a colour buffer
GroupBytes(buf, g) == SubSeq(buf, 12 * g + 1, 12 * g + 12)

\* floor(et + k) mod p for et in microseconds
FloorMod(et, k, p) == ((et + k * Unit) \div Unit) % p

\* C1: after every frame, vertex group g of the current-colour buffer holds
\* paletteTable[floor(elapsedTime + g) mod P] and vertex group g of the
\* next-colour buffer holds paletteTable[floor(elapsedTime + g + 1) mod P]
\* (P = 3 and 12 groups in utils.ts, P = 6 and 6 groups in the others).
C1_PaletteOfGroup ==
  frames > 0 =>
    /\ Len(colors) = 12 * GroupCount
    /\ Len(nextColors) = 12 * GroupCount
    /\ \A g \in 0..(GroupCount - 1) :
         /\ GroupBytes(colors, g) =
              allColors(variant)[FloorMod(elapsedTime, g, PaletteCount) + 1]
         /\ GroupBytes(nextColors, g) =
              allColors(variant)[FloorMod(elapsedTime, g + 1, PaletteCount) + 1]

C1_Witness ==
  /\ frames > 0
  /\ variant = "utils.ts"
  /\ elapsedTime > 2 * Unit
  /\ elapsedTime % Unit # 0

\* C2: the next-colour buffer built at a whole second k equals the
\* current-colour buffer built at k + 1.
C2_Continuity ==
  (/\ ref # none
   /\ ref.elapsedTime % Unit = 0
   /\ elapsedTime = ref.elapsedTime + Unit)
  => colors = ref.nextColors

C2_Witness ==
  /\ ref # none
  /\ ref.elapsedTime = 4 * Unit
  /\ elapsedTime = 5 * Unit
  /\ colors = ref.nextColors
  /\ colors # ref.colors

\* C3: the current-colour buffer built at t equals the one built at
\* t + k * P seconds, P the palette table length of the variant.
C3_Periodicity ==
  (/\ ref # none
   /\ elapsedTime >= ref.elapsedTime
   /\ (elapsedTime - ref.elapsedTime) % (PaletteCount * Unit) = 0)
  => colors = ref.colors

C3_Witness ==
  /\ ref # none
  /\ ref.elapsedTime % Unit # 0
  /\ elapsedTime = ref.elapsedTime + 2 * PaletteCount * Unit
  /\ colors = ref.colors

\* C4 as stated: from the initial state the time scale is positive and
\* within 0.2 * 99/100 .. 2.5 * 100/99.
C4_BandAsStated ==
  /\ RatPositive(timeScale)
  /\ ~RatLess(timeScale, 198, 1000)
  /\ ~RatGreater(timeScale, 250, 99)

\* C4 (amended): from the initial state the time scale is positive and
\* within 0.2 * 99/100 .. 5 * 100/99, one multiplicative step beyond the
\* thresholds 2/10 and 10/2 of the code.
C4_Band ==
  /\ RatPositive(timeScale)
  /\ ~RatLess(timeScale, 198, 1000)
  /\ ~RatGreater(timeScale, 500, 99)

C4_Witness ==
  /\ frames > 0
  /\ RatGreater(timeScale, 5, 1)

\* the latest doRender inverted the direction flag
Flipped == frames > 0 /\ shrinkTimeScale # entry.shrinkTimeScale

\* C5 as stated: a step inverts the flag iff the scale before the step is
\* < 0.2 or > 2.5; from a scale in (0.2, 2.5] with the flag set the flag
\* stays set and the scale is multiplied by 0.99.
C5_FlipAsStated ==
  frames > 0 =>
    /\ Flipped <=> (\/ RatLess(entry.timeScale, 2, 10)
                    \/ RatGreater(entry.timeScale, 25, 10))
    /\ (/\ RatGreater(entry.timeScale, 2, 10)
        /\ ~RatGreater(entry.timeScale, 25, 10)
        /\ entry.shrinkTimeScale)
       => /\ shrinkTimeScale
          /\ RatSame(timeScale, RatMul(entry.timeScale, 99, 100))

\* C5 (amended): a step inverts the flag iff the scale before the step is
\* < 0.2 or > 5, whatever the flag was; from a scale in (0.2, 5] with the
\* flag set the flag stays set and the scale is multiplied by 0.99.
C5_Flip ==
  frames > 0 =>
    /\ Flipped <=> (\/ RatLess(entry.timeScale, 2, 10)
                    \/ RatGreater(entry.timeScale, 5, 1))
    /\ (/\ RatGreater(entry.timeScale, 2, 10)
        /\ ~RatGreater(entry.timeScale, 5, 1)
        /\ entry.shrinkTimeScale)
       => /\ shrinkTimeScale
          /\ RatSame(timeScale, RatMul(entry.timeScale, 99, 100))

C5_Witness ==
  /\ Flipped
  /\ ~entry.shrinkTimeScale
  /\ RatLess(entry.timeScale, 2, 10)

\* C6 as stated: a step that inverts the flag multiplies by the factor of
\* the direction before the step; (2.6, shrinking) yields (2.574, growing).
C6_MultiplierAsStated ==
  /\ Flipped =>
       RatSame(timeScale,
               IF entry.shrinkTimeScale
               THEN RatMul(entry.timeScale, 99, 100)
               ELSE RatMul(entry.timeScale, 100, 99))
  /\ (/\ frames > 0
      /\ RatSame(entry.timeScale, Rat(26, 10))
      /\ entry.shrinkTimeScale)
     => RatSame(timeScale, Rat(2574, 1000)) /\ ~shrinkTimeScale

\* C6 (amended): a step that inverts the flag multiplies by the factor of
\* the direction after the inversion (100/99 when the flag was shrinking
\* before the step, 0.99 when it was growing); (2.6, shrinking) is not
\* inverted and yields (2.574, shrinking).
C6_Multiplier ==
  /\ Flipped =>
       RatSame(timeScale,
               IF entry.shrinkTimeScale
               THEN RatMul(entry.timeScale, 100, 99)
               ELSE RatMul(entry.timeScale, 99, 100))
  /\ (/\ frames > 0
      /\ RatSame(entry.timeScale, Rat(26, 10))
      /\ entry.shrinkTimeScale)
     => RatSame(timeScale, Rat(2574, 1000)) /\ shrinkTimeScale

C6_Witness ==
  /\ Flipped
  /\ entry.shrinkTimeScale
  /\ RatLess(entry.timeScale, 2, 10)
  /\ RatGreater(timeScale, 2, 10)

\* C7: from any positive seed and either direction the time scale stays
\* strictly positive.
C7_Positive == RatPositive(timeScale)

C7_Witness ==
  /\ frames = SeedFrames
  /\ Flipped
  /\ RatLess(timeScale, 1, 100)

\* C8: elapsedTime is 0 before the first frame, is never negative and no
\* step decreases it.
C8_ElapsedMonotone ==
  [][/\ frames = 0 => elapsedTime = 0
     /\ elapsedTime >= 0
     /\ elapsedTime' >= elapsedTime]_vars

C8_Witness ==
  /\ frames = 3
  /\ entry.elapsedTime > 0
  /\ elapsedTime > entry.elapsedTime
  /\ entry.currentTime > entry.previousTime

\* C9: when a startup check fails, main stops: nothing is drawn, no
\* animation frame is requested, no key listener is registered, and the
\* program stays stopped.
C9_AbortOnFailure ==
  (host # none /\ ~(/\ host.canvas
                    /\ host.webgl
                    /\ host.vertexShader
                    /\ host.fragmentShader
                    /\ host.program))
  => /\ pc = "aborted"
     /\ frames = 0
     /\ drawCount = 0
     /\ glCalls = <<>>
     /\ rafPending = 0
     /\ ~keyListener

C9_Witness ==
  /\ pc = "aborted"
  /\ host.canvas /\ host.webgl /\ host.vertexShader /\ host.fragmentShader
  /\ ~host.program

\* C10: at most one animation-frame callback is pending; every doRender
\* requests exactly one, as its last call, right after drawArrays.
C10_OneCallback ==
  /\ rafPending <= 1
  /\ frames > 0 =>
       /\ rafPending = 1
       /\ Count(glCalls, "requestAnimationFrame") = 1
       /\ glCalls[Len(glCalls)] = "requestAnimationFrame"
       /\ glCalls[Len(glCalls) - 1] = "drawArrays"

C10_Witness ==
  /\ frames = 2
  /\ rafPending = 1
  /\ drawCount > 0

\* C11: two runs on the same clock readings that differ only in whether the
\* page has the #timeScale element agree, after every frame, on
\* elapsedTime, timeScale, the direction flag, both colour buffers, the
\* time uniform and the host calls with their draw count.
C11_StatusIndependent ==
  frames > 0 =>
    /\ elapsedTime = twin.elapsedTime
    /\ RatSame(timeScale, twin.timeScale)
    /\ shrinkTimeScale = twin.shrinkTimeScale
    /\ unifTime = twin.unifTime
    /\ colors = twin.colors
    /\ nextColors = twin.nextColors
    /\ drawCount = twin.drawCount
    /\ glCalls = twin.glCalls

C11_Witness ==
  /\ frames = 3
  /\ elapsedTime > Unit
  /\ textContent # twin.textContent
  /\ colors = twin.colors

\* C12: a frame adds dt times the time scale it found on entry to
\* elapsedTime, then steps the time scale, and the time uniform and both
\* colour buffers it sends are those of the increased elapsedTime.
C12_FrameOrder ==
  frames > 0 =>
    /\ elapsedTime =
         entry.elapsedTime
         + Scaled(entry.currentTime - entry.previousTime, Unit \div 1000,
                  entry.timeScale)
    /\ \/ RatSame(timeScale, RatMul(entry.timeScale, 99, 100))
       \/ RatSame(timeScale, RatMul(entry.timeScale, 100, 99))
    /\ unifTime = elapsedTime
    /\ \A g \in 0..(GroupCount - 1) :
         /\ GroupBytes(colors, g) =
              allColors(variant)[FloorMod(elapsedTime, g, PaletteCount) + 1]
         /\ GroupBytes(nextColors, g) =
              allColors(variant)[FloorMod(elapsedTime, g + 1, PaletteCount) + 1]

C12_Witness ==
  /\ frames = 3
  /\ entry.currentTime > entry.previousTime
  /\ entry.elapsedTime > 0
  /\ FloorMod(elapsedTime, 0, PaletteCount)
       # FloorMod(entry.elapsedTime, 0, PaletteCount)
  /\ unifTime > entry.elapsedTime

\* C13 as stated: every doRender writes elapsedTime, timeScale and the
\* direction flag exactly once each, and a step that is not a doRender
\* leaves elapsedTime, timeScale, the flag, previousTime and startTime
\* unchanged.
C13_SingleWriterAsStated ==
  [][/\ frames' # frames =>
          /\ writes'.elapsedTime = 1
          /\ writes'.timeScale = 1
          /\ writes'.shrinkTimeScale = 1
     /\ frames' = frames =>
          UNCHANGED <<elapsedTime, timeScale, shrinkTimeScale, previousTime,
                      startTime>>]_vars

\* C13 (amended): every doRender writes elapsedTime and timeScale exactly
\* once each and the direction flag at most once, namely when it inverts
\* it; a step that is not a doRender (a keydown, for any key) leaves
\* elapsedTime, timeScale, the flag, previousTime and startTime unchanged.
C13_SingleWriter ==
  [][/\ frames' # frames =>
          /\ writes'.elapsedTime = 1
          /\ writes'.timeScale = 1
          /\ writes'.shrinkTimeScale
               = (IF shrinkTimeScale' # entry'.shrinkTimeScale THEN 1 ELSE 0)
     /\ frames' = frames =>
          UNCHANGED <<elapsedTime, timeScale, shrinkTimeScale, previousTime,
                      startTime>>]_vars

C13_Witness ==
  /\ frames >= 2
  /\ keys = MaxKeys
  /\ unifViewProj # none
  /\ unifViewProj.edits # <<>>
  /\ writes.shrinkTimeScale = 0

\* the time scale is beyond one of the thresholds 2 / 10 and 10 / 2
Outside(ts) == RatLess(ts, 2, 10) \/ RatGreater(ts, 10, 2)

\* C14: from timeScale = 1.0, shrinking, a frame that finds the time scale
\* beyond a threshold inverts the direction and leaves the time scale
\* between the thresholds, and a frame that follows an inverting frame does
\* not invert.
C14_NoDoubleFlip ==
  [][frames' = frames + 1 =>
       /\ Outside(timeScale) => (Flipped' /\ ~Outside(timeScale'))
       /\ Flipped => ~Flipped']_vars

C14_Witness ==
  /\ Flipped
  /\ RatGreater(entry.timeScale, 10, 2)
  /\ ~Outside(timeScale)
  /\ history.flips = 2

C16_FovReflected ==
  [][/\ keys' = keys + 1 =>
          /\ cameraFov' \in {cameraFov - 1, cameraFov, cameraFov + 1}
          /\ unifViewProj' = unifViewProj
     /\ (frames' = frames + 1 /\ variant = "utils.ts") =>
          unifViewProj'.fov = cameraFov']_vars

====
